---- MODULE Spec2Model ----
(***************************************************************************)
(* A model of pubmed_scraper.py: the chunked fetch loop with bounded retry *)
(* and exponential backoff (fetch_details), the defensive field extraction *)
(* (extract_data) and the month normalisation (standardize_dates).         *)
(*                                                                         *)
(* Python values are modelled structurally: a dict is a function whose     *)
(* DOMAIN is its key set, a list is a sequence, a str that the code builds *)
(* by joining or formatting is the sequence of the pieces it is built of.  *)
(* Sleeps are recorded in milliseconds.                                    *)
(***************************************************************************)
EXTENDS Integers, Sequences, FiniteSets, TLC

VARIABLES
    id_list,      \* fetch_details: the identifiers to fetch
    chunk_size,   \* fetch_details: the chunk size
    it,           \* number of items the for loop has taken from range(...)
    i,            \* the for loop's variable: start index of the current chunk
    tries,        \* failed attempts of the current chunk
    pc,           \* position in fetch_details
    all_papers,   \* the records collected so far
    log,          \* what an observer of the network and of time.sleep has seen
    papers,       \* extract_data: the records to flatten
    idx,          \* extract_data: number of records the loop has processed
    data,         \* extract_data: the eleven columns
    epc,          \* position in extract_data
    df0,          \* standardize_dates: the table as first given
    df,           \* standardize_dates: the table
    passes        \* number of applications of standardize_dates so far

vars == <<id_list, chunk_size, it, i, tries, pc, all_papers, log,
          papers, idx, data, epc, df0, df, passes>>

fetchVars == <<id_list, chunk_size, it, i, tries, pc, all_papers, log>>
extractVars == <<papers, idx, data, epc>>
dateVars == <<df0, df, passes>>

(***************************************************************************)
(* Bounds of the model.                                                    *)
(***************************************************************************)
MaxIds == 3       \* identifier lists of 0..MaxIds identifiers
MaxChunk == 3     \* chunk sizes 1..MaxChunk
MaxExtra == 1     \* a response holds up to MaxExtra records more than asked for
MaxPapers == 2    \* extract_data is given 0..MaxPapers records
MaxAuthors == 2   \* author lists of 0..MaxAuthors entries
MaxRows == 2      \* standardize_dates is given tables of 0..MaxRows rows
MaxPasses == 2    \* standardize_dates is applied up to MaxPasses times

(***************************************************************************)
(* Python helpers.                                                         *)
(***************************************************************************)
Min(a, b) == IF a < b THEN a ELSE b

\* dict.get(key, default)
Get(d, key, default) == IF key \in DOMAIN d THEN d[key] ELSE default

\* s[a:b] for 0 <= a
Slice(s, a, b) == SubSeq(s, a + 1, Min(b, Len(s)))

\* list(range(start, stop, step)) for step >= 1
RECURSIVE Range(_, _, _)
Range(start, stop, step) ==
    IF start < stop THEN <<start>> \o Range(start + step, stop, step) ELSE <<>>

RECURSIVE Pow2(_)
Pow2(n) == IF n = 0 THEN 1 ELSE 2 * Pow2(n - 1)

(***************************************************************************)
(* fetch_details                                                           *)
(***************************************************************************)
max_tries == 3
PaceMs == 500

\* range(0, len(id_list), chunk_size)
ChunkStartsDropPartial(ids, size) ==
    SelectSeq(Range(0, Len(ids), size), LAMBDA s : s + size <= Len(ids))
ChunkStarts(ids, size) == Range(0, Len(ids), size)

\* chunk = id_list[i:i + chunk_size]
ChunkOverlap(ids, start, size) == Slice(ids, start, start + size + 1)
Chunk(ids, start, size) == Slice(ids, start, start + size)

\* time_to_wait = 2 ** tries, in ms
Backoff(t) == Pow2(t) * 1000

\* if tries < max_tries: sleep ... else: give up
ShouldBackoffAlways(t) == t <= max_tries
ShouldBackoff(t) == t < max_tries

\* while tries < max_tries: the body is entered, or the loop is left and the
\* pacing sleep that ends the for body is next
LoopPc(t) == IF t < max_tries THEN "try" ELSE "pace"

\* The records of a response of n records to the request for the chunk at
\* `start': the k-th is tagged <<start, k>>.
Recs(start, n) == [k \in 1..n |-> <<start, k>>]

\* What Entrez.read can return for a request that does not raise: a dict with
\* the record list under 'PubmedArticle', or a dict without that key.
Responses(start, chunk) ==
    {[PubmedArticle |-> Recs(start, n)] : n \in 0..(Len(chunk) + MaxExtra)}
        \cup {[PubmedBookArticle |-> <<>>]}

\* if 'PubmedArticle' in results: all_papers.extend(results['PubmedArticle'])
ExtendPrepend(all, results) ==
    IF "PubmedArticle" \in DOMAIN results
    THEN results["PubmedArticle"] \o all ELSE all
Extend(all, results) ==
    IF "PubmedArticle" \in DOMAIN results
    THEN all \o results["PubmedArticle"] ELSE all

ReqEvent(start, chunk, out, n) ==
    [ev |-> "req", chunk |-> start, ids |-> chunk, out |-> out, n |-> n, ms |-> 0]
SleepEvent(start, ms) ==
    [ev |-> "sleep", chunk |-> start, ids |-> <<>>, out |-> "", n |-> 0, ms |-> ms]

IdLists == {[k \in 1..n |-> k] : n \in 0..MaxIds}

InitFetch ==
    /\ id_list \in IdLists
    /\ chunk_size \in 1..MaxChunk
    /\ it = 0
    /\ i = 0
    /\ tries = 0
    /\ pc = "for"
    /\ all_papers = <<>>
    /\ log = <<>>

\* The for loop takes its next item; tries = 0.
StartChunkKeepTries ==
    /\ pc = "for"
    /\ it < Len(ChunkStarts(id_list, chunk_size))
    /\ it' = it + 1
    /\ i' = ChunkStarts(id_list, chunk_size)[it + 1]
    /\ pc' = LoopPc(tries)
    /\ UNCHANGED <<id_list, chunk_size, tries, all_papers, log>>
StartChunk ==
    /\ pc = "for"
    /\ it < Len(ChunkStarts(id_list, chunk_size))
    /\ it' = it + 1
    /\ i' = ChunkStarts(id_list, chunk_size)[it + 1]
    /\ tries' = 0
    /\ pc' = LoopPc(0)
    /\ UNCHANGED <<id_list, chunk_size, all_papers, log>>

\* One pass of the while body in which efetch and read return: the records
\* are appended when the field is there, and break leaves the retry loop.
AttemptReturnsStrict ==
    /\ pc = "try"
    /\ LET chunk == Chunk(id_list, i, chunk_size) IN
       \E results \in Responses(i, chunk) :
          IF "PubmedArticle" \in DOMAIN results
          THEN /\ all_papers' = Extend(all_papers, results)
               /\ log' = Append(log, ReqEvent(i, chunk, "ok",
                                              Len(results["PubmedArticle"])))
               /\ pc' = "pace"
               /\ UNCHANGED tries
          ELSE \* results['PubmedArticle'] raises KeyError, caught as a failure
               /\ tries' = tries + 1
               /\ UNCHANGED all_papers
               /\ log' = log \o <<ReqEvent(i, chunk, "nofield", 0)>>
                             \o (IF ShouldBackoff(tries + 1)
                                 THEN <<SleepEvent(i, Backoff(tries + 1))>>
                                 ELSE <<>>)
               /\ pc' = LoopPc(tries + 1)
    /\ UNCHANGED <<id_list, chunk_size, it, i>>
AttemptReturns ==
    /\ pc = "try"
    /\ LET chunk == Chunk(id_list, i, chunk_size) IN
       \E results \in Responses(i, chunk) :
          /\ all_papers' = Extend(all_papers, results)
          /\ log' = Append(log,
                IF "PubmedArticle" \in DOMAIN results
                THEN ReqEvent(i, chunk, "ok", Len(results["PubmedArticle"]))
                ELSE ReqEvent(i, chunk, "nofield", 0))
    /\ pc' = "pace"
    /\ UNCHANGED <<id_list, chunk_size, it, i, tries>>

\* One pass of the while body in which efetch or read raises: the except
\* block counts the failure and backs off when tries remain; the while
\* condition then decides between another pass and leaving the loop.
AttemptRaises ==
    /\ pc = "try"
    /\ tries' = tries + 1
    /\ LET chunk == Chunk(id_list, i, chunk_size) IN
       log' = log \o <<ReqEvent(i, chunk, "raise", 0)>>
                  \o (IF ShouldBackoff(tries + 1)
                      THEN <<SleepEvent(i, Backoff(tries + 1))>>
                      ELSE <<>>)
    /\ pc' = LoopPc(tries + 1)
    /\ UNCHANGED <<id_list, chunk_size, it, i, all_papers>>

\* time.sleep(0.5) at the end of the for body
PaceInsideTry ==
    /\ pc = "pace"
    /\ log' = IF log[Len(log)].out = "raise"
              THEN log ELSE Append(log, SleepEvent(i, PaceMs))
    /\ pc' = "for"
    /\ UNCHANGED <<id_list, chunk_size, it, i, tries, all_papers>>
Pace ==
    /\ pc = "pace"
    /\ log' = Append(log, SleepEvent(i, PaceMs))
    /\ pc' = "for"
    /\ UNCHANGED <<id_list, chunk_size, it, i, tries, all_papers>>

\* The range is exhausted: return all_papers
Return ==
    /\ pc = "for"
    /\ it = Len(ChunkStarts(id_list, chunk_size))
    /\ pc' = "done"
    /\ UNCHANGED <<id_list, chunk_size, it, i, tries, all_papers, log>>

(***************************************************************************)
(* Python strings.  A str is [text |-> pieces]; a Bio.Entrez StringElement *)
(* is a str that also carries attributes.                                  *)
(***************************************************************************)
PyStr(piece) == [text |-> <<piece>>]
Element(piece, attrs) == [text |-> <<piece>>, attributes |-> attrs]

\* A list as Entrez.read returns it (a ListElement)
ListElement(items) == [items |-> items, attributes |-> <<>>]

\* isinstance(v, list)
IsList(v) == "items" \in DOMAIN v

\* str(v): the plain str with the text of v
Str(v) == [text |-> v.text]

\* f"{a} {b}"
Format2(a, b) == [text |-> a.text \o <<" ">> \o b.text]

\* sep.join(list)
RECURSIVE JoinText(_, _)
JoinText(sep, list) ==
    IF list = <<>> THEN <<>>
    ELSE IF Len(list) = 1 THEN list[1].text
    ELSE list[1].text \o <<sep>> \o JoinText(sep, Tail(list))
Join(sep, list) == [text |-> JoinText(sep, list)]

\* [str(x) for x in list]
StrAll(list) == [k \in 1..Len(list) |-> Str(list[k])]

(***************************************************************************)
(* extract_data                                                            *)
(***************************************************************************)
Columns == {"PMID", "Title", "Abstract", "Journal", "Language", "Year",
            "Month", "Day", "Authors", "Keywords", "DOI"}

\* pmid = citation.get('PMID', 'No PMID'); str(pmid)
ExtractPMID(citation) == Str(Get(citation, "PMID", PyStr("No PMID")))

\* title = article.get('ArticleTitle', 'No Title')
ExtractTitle(article) == Get(article, "ArticleTitle", PyStr("No Title"))

\* The abstract: a list of sections is joined with ' ', a single value is
\* stringified (str of a value Entrez.read returns does not raise, so the
\* except branch is not taken)
ExtractAbstract(article) ==
    LET abstract_section == Get(article, "Abstract", <<>>) IN
    IF DOMAIN abstract_section # {} /\ "AbstractText" \in DOMAIN abstract_section
    THEN LET abstract_text == abstract_section["AbstractText"] IN
         IF IsList(abstract_text)
         THEN Join(" ", StrAll(abstract_text.items))
         ELSE Str(abstract_text)
    ELSE PyStr("No Abstract")

\* journal = article.get('Journal', {}).get('Title', 'No Journal')
ExtractJournal(article) ==
    Get(Get(article, "Journal", <<>>), "Title", PyStr("No Journal"))

\* language = article['Language'][0] if there is one, else 'Unknown'
ExtractLanguage(article) ==
    IF "Language" \in DOMAIN article /\ Len(article["Language"]) > 0
    THEN article["Language"][1]
    ELSE PyStr("Unknown")

\* pub_date = article.get('Journal', {}).get('JournalIssue', {}).get('PubDate', {})
PubDate(article) ==
    Get(Get(Get(article, "Journal", <<>>), "JournalIssue", <<>>), "PubDate", <<>>)

\* pub_date.get(part, 'No Data')
ExtractDatePart(article, part) == Get(PubDate(article), part, PyStr("No Data"))

\* The if/elif chain of the author loop: the names one entry appends
AuthorNameForeFirst(author) ==
    IF "LastName" \in DOMAIN author /\ "ForeName" \in DOMAIN author
    THEN <<Format2(author["ForeName"], author["LastName"])>>
    ELSE IF "LastName" \in DOMAIN author THEN <<author["LastName"]>>
    ELSE IF "CollectiveName" \in DOMAIN author THEN <<author["CollectiveName"]>>
    ELSE <<>>
AuthorName(author) ==
    IF "LastName" \in DOMAIN author /\ "ForeName" \in DOMAIN author
    THEN <<Format2(author["LastName"], author["ForeName"])>>
    ELSE IF "LastName" \in DOMAIN author THEN <<author["LastName"]>>
    ELSE IF "CollectiveName" \in DOMAIN author THEN <<author["CollectiveName"]>>
    ELSE <<>>

\* for author in author_list: ... authors.append(...)
RECURSIVE AuthorNames(_)
AuthorNames(author_list) ==
    IF author_list = <<>> THEN <<>>
    ELSE AuthorName(Head(author_list)) \o AuthorNames(Tail(author_list))

\* '; '.join(authors) if authors else 'No Authors'
ExtractAuthors(article) ==
    LET author_list == Get(article, "AuthorList", <<>>)
        authors == IF author_list # <<>> THEN AuthorNames(author_list) ELSE <<>>
    IN IF authors # <<>> THEN Join("; ", authors) ELSE PyStr("No Authors")

\* The first keyword group, stringified and joined, or 'No Keywords'
ExtractKeywords(citation) ==
    LET keyword_list == Get(citation, "KeywordList", <<>>)
        keywords == IF keyword_list # <<>> /\ Len(keyword_list) > 0
                    THEN StrAll(keyword_list[1]) ELSE <<>>
    IN IF keywords # <<>> THEN Join("; ", keywords) ELSE PyStr("No Keywords")

\* for id_item in article_id_list: the first whose IdType is 'doi'
RECURSIVE FirstDoi(_)
FirstDoi(article_id_list) ==
    IF article_id_list = <<>> THEN PyStr("No DOI")
    ELSE IF Get(Head(article_id_list).attributes, "IdType", "") = "doi"
         THEN Str(Head(article_id_list))
         ELSE FirstDoi(Tail(article_id_list))
ExtractDOI(paper) ==
    FirstDoi(Get(Get(paper, "PubmedData", <<>>), "ArticleIdList", <<>>))

\* The eleven values one pass of the for body appends
Row(paper) ==
    LET citation == Get(paper, "MedlineCitation", <<>>)
        article == Get(citation, "Article", <<>>)
    IN [PMID |-> ExtractPMID(citation),
        Title |-> ExtractTitle(article),
        Abstract |-> ExtractAbstract(article),
        Journal |-> ExtractJournal(article),
        Language |-> ExtractLanguage(article),
        Year |-> ExtractDatePart(article, "Year"),
        Month |-> ExtractDatePart(article, "Month"),
        Day |-> ExtractDatePart(article, "Day"),
        Authors |-> ExtractAuthors(article),
        Keywords |-> ExtractKeywords(citation),
        DOI |-> ExtractDOI(paper)]

\* One pass of the for body: every column is appended to
AppendRowSkipDoi(d, paper) ==
    [c \in Columns |->
        IF c = "DOI" /\ ExtractDOI(paper) = PyStr("No DOI")
        THEN d[c] ELSE Append(d[c], Row(paper)[c])]
AppendRow(d, paper) == [c \in Columns |-> Append(d[c], Row(paper)[c])]

(***************************************************************************)
(* The records extract_data is given.  A record is built from a shape that *)
(* says, field by field, whether the field is there and in which form.     *)
(***************************************************************************)
Opt(present, key, value) == IF present THEN key :> value ELSE <<>>

AuthorKeys == {"LastName", "ForeName", "CollectiveName"}

\* The k-th author entry, holding the name fields `keys' and its initials
Author(keys, k) ==
    [f \in keys \cup {"Initials"} |-> Element(f \o ToString(k), <<>>)]

\* Every author list of up to MaxAuthors entries, each entry with any subset
\* of the name fields
AuthorLists ==
    UNION {{[k \in 1..n |-> Author(sh[k], k)] : sh \in [1..n -> SUBSET AuthorKeys]}
              : n \in 0..MaxAuthors}

\* The author list of a shape, as zero or one lists (zero: the key is absent)
AuthorsByCode(code) ==
    CASE code = "absent" -> <<>>
      [] code = "empty" -> << <<>> >>
      [] code = "lastOnly" -> << <<Author({"LastName"}, 1)>> >>
      [] code = "collective" ->
            << <<Author({"LastName", "ForeName"}, 1), Author({"CollectiveName"}, 2)>> >>
      [] code = "nameless" -> << <<Author({"ForeName"}, 1), Author({}, 2)>> >>
      [] OTHER ->
            << <<Author({"LastName", "ForeName"}, 1), Author({"LastName", "ForeName"}, 2)>> >>

AbstractByCode(code) ==
    CASE code = "absent" -> <<>>
      [] code = "empty" -> << <<>> >>
      [] code = "noText" -> << [CopyrightInformation |-> Element("(c)", <<>>)] >>
      [] code = "list" ->
            << [AbstractText |->
                   ListElement(<<Element("Background text.", [Label |-> "BACKGROUND"]),
                                 Element("Methods text.", [Label |-> "METHODS"])>>)] >>
      [] code = "emptyList" -> << [AbstractText |-> ListElement(<<>>)] >>
      [] OTHER -> << [AbstractText |-> Element("Abstract text.", <<>>)] >>

PubDateByCode(code) ==
    CASE code = "emptyPubDate" -> <<>>
      [] code = "yearOnly" -> [Year |-> Element("2020", <<>>)]
      [] code = "medlineDate" -> [MedlineDate |-> Element("2020 Mar-Apr", <<>>)]
      [] OTHER -> [Year |-> Element("2020", <<>>), Month |-> Element("Mar", <<>>),
                   Day |-> Element("15", <<>>)]

JournalByCode(code) ==
    CASE code = "absent" -> <<>>
      [] code = "empty" -> << <<>> >>
      [] code = "titleOnly" -> << [Title |-> Element("Nature", <<>>)] >>
      [] code = "noPubDate" ->
            << [Title |-> Element("Nature", <<>>), JournalIssue |-> [Volume |-> Element("7", <<>>)]] >>
      [] code = "noTitle" -> << [JournalIssue |-> [PubDate |-> PubDateByCode("full")]] >>
      [] OTHER ->
            << [Title |-> Element("Nature", <<>>),
                JournalIssue |-> [PubDate |-> PubDateByCode(code)]] >>

LanguageByCode(code) ==
    CASE code = "absent" -> <<>>
      [] code = "emptyList" -> << <<>> >>
      [] code = "two" -> << <<Element("fre", <<>>), Element("eng", <<>>)>> >>
      [] OTHER -> << <<Element("eng", <<>>)>> >>

KeywordsByCode(code) ==
    CASE code = "absent" -> <<>>
      [] code = "emptyList" -> << <<>> >>
      [] code = "emptyGroup" -> << << <<>> >> >>
      [] code = "twoGroups" ->
            << << <<Element("k1", [MajorTopicYN |-> "N"])>>,
                  <<Element("k2", [MajorTopicYN |-> "N"])>> >> >>
      [] OTHER ->
            << << <<Element("k1", [MajorTopicYN |-> "N"]),
                    Element("k2", [MajorTopicYN |-> "Y"])>> >> >>

PubmedDataByCode(code) ==
    CASE code = "absent" -> <<>>
      [] code = "empty" -> << <<>> >>
      [] code = "emptyList" -> << [ArticleIdList |-> <<>>] >>
      [] code = "pubmedOnly" ->
            << [ArticleIdList |-> <<Element("123", [IdType |-> "pubmed"])>>] >>
      [] code = "noIdType" ->
            << [ArticleIdList |-> <<Element("123", <<>>)>>] >>
      [] code = "twoDois" ->
            << [ArticleIdList |-> <<Element("10.1/a", [IdType |-> "doi"]),
                                    Element("10.1/b", [IdType |-> "doi"])>>] >>
      [] OTHER ->
            << [ArticleIdList |-> <<Element("123", [IdType |-> "pubmed"]),
                                    Element("10.1/a", [IdType |-> "doi"])>>] >>

\* An optional key: `values' holds zero or one values
OptKey(key, values) == Opt(values # <<>>, key, IF values # <<>> THEN values[1] ELSE <<>>)

\* The record of shape o, with the author list given as zero or one lists
MkPaperWith(o, authors) ==
    LET article ==
            Opt(o.title = "present", "ArticleTitle", Element("A title", <<>>))
            @@ OptKey("Abstract", AbstractByCode(o.abstract))
            @@ OptKey("Journal", JournalByCode(o.journal))
            @@ OptKey("Language", LanguageByCode(o.language))
            @@ OptKey("AuthorList", authors)
        citation ==
            Opt(o.pmid = "present", "PMID", Element("123", [Version |-> "1"]))
            @@ Opt(o.article = "present", "Article", article)
            @@ OptKey("KeywordList", KeywordsByCode(o.keywords))
    IN Opt(o.citation = "present", "MedlineCitation", citation)
       @@ OptKey("PubmedData", PubmedDataByCode(o.pubmeddata))
MkPaper(o) == MkPaperWith(o, AuthorsByCode(o.authors))

\* The record with every field present in its usual form
FullShape ==
    [citation |-> "present", pmid |-> "present", article |-> "present",
     title |-> "present", abstract |-> "single", journal |-> "full",
     language |-> "one", authors |-> "two", keywords |-> "one",
     pubmeddata |-> "doi"]

\* The ways one field of a record is absent or in another form
Variations ==
    {<<"citation", "absent">>, <<"pmid", "absent">>, <<"article", "absent">>,
     <<"title", "absent">>}
    \cup {<<"abstract", c>> : c \in {"absent", "empty", "noText", "list", "emptyList"}}
    \cup {<<"journal", c>> : c \in {"absent", "empty", "titleOnly", "noPubDate",
                                    "noTitle", "emptyPubDate", "yearOnly", "medlineDate"}}
    \cup {<<"language", c>> : c \in {"absent", "emptyList", "two"}}
    \cup {<<"authors", c>> : c \in {"absent", "empty", "lastOnly", "collective", "nameless"}}
    \cup {<<"keywords", c>> : c \in {"absent", "emptyList", "emptyGroup", "twoGroups"}}
    \cup {<<"pubmeddata", c>> : c \in {"absent", "empty", "emptyList", "pubmedOnly",
                                       "noIdType", "twoDois"}}

\* The empty record, the full record, and the full record with one field
\* absent or in another form
PaperSet ==
    {<<>>, MkPaper(FullShape)}
    \cup {MkPaper([FullShape EXCEPT ![v[1]] = v[2]]) : v \in Variations}

PaperLists == UNION {[1..n -> PaperSet] : n \in 0..MaxPapers}

\* One record, full but for its author list, which is absent or any list
AuthorPaperLists ==
    {<<MkPaperWith(FullShape, <<>>)>>}
    \cup {<<MkPaperWith(FullShape, <<al>>)>> : al \in AuthorLists}

EmptyData == [c \in Columns |-> <<>>]

InitExtractWith(lists) ==
    /\ papers \in lists
    /\ idx = 0
    /\ data = EmptyData
    /\ epc = "loop"

\* One pass of the for loop over papers
ExtractStep ==
    /\ epc = "loop"
    /\ idx < Len(papers)
    /\ data' = AppendRow(data, papers[idx + 1])
    /\ idx' = idx + 1
    /\ UNCHANGED <<papers, epc>>

\* return pd.DataFrame(data), which raises when the columns differ in length
ExtractReturn ==
    /\ epc = "loop"
    /\ idx = Len(papers)
    /\ epc' = IF \A c, d \in Columns : Len(data[c]) = Len(data[d])
              THEN "done" ELSE "raised"
    /\ UNCHANGED <<papers, idx, data>>

(***************************************************************************)
(* standardize_dates                                                       *)
(***************************************************************************)
\* np.nan
NaN == [nan |-> TRUE]

\* == between a cell and a str
StrEq(cell, s) == "text" \in DOMAIN cell /\ cell.text = s.text

\* month_mapping, in the order its items are iterated
month_mappingTypo ==
    << <<"Jan", "01">>, <<"Feb", "02">>, <<"Mar", "03">>, <<"Apr", "04">>,
       <<"May", "05">>, <<"Jun", "06">>, <<"Jul", "07">>, <<"Aug", "08">>,
       <<"Sep", "09">>, <<"Oct", "Sep">>, <<"Nov", "11">>, <<"Dec", "12">> >>
month_mapping ==
    << <<"Jan", "01">>, <<"Feb", "02">>, <<"Mar", "03">>, <<"Apr", "04">>,
       <<"May", "05">>, <<"Jun", "06">>, <<"Jul", "07">>, <<"Aug", "08">>,
       <<"Sep", "09">>, <<"Oct", "10">>, <<"Nov", "11">>, <<"Dec", "12">> >>

\* Series.replace(to_replace, value): the cells equal to to_replace become value
Replace(col, to_replace, value) ==
    [k \in 1..Len(col) |-> IF StrEq(col[k], to_replace) THEN value ELSE col[k]]

\* for month_name, month_num in month_mapping.items(): replace
RECURSIVE ReplaceMonths(_, _)
ReplaceMonths(col, mapping) ==
    IF mapping = <<>> THEN col
    ELSE ReplaceMonths(Replace(col, PyStr(Head(mapping)[1]), PyStr(Head(mapping)[2])),
                       Tail(mapping))

standardize_dates(t) ==
    [Month |-> Replace(ReplaceMonths(t.Month, month_mapping), PyStr("No Data"), NaN),
     Day |-> Replace(t.Day, PyStr("No Data"), NaN),
     Year |-> Replace(t.Year, PyStr("No Data"), NaN)]

\* The date cells extract_data produces
MonthCells ==
    {Element(m, <<>>) : m \in {"Jan", "Mar", "Oct", "03", "Spring"}}
        \cup {PyStr("No Data")}
DayCells == {Element("15", <<>>), PyStr("No Data")}
YearCells == {Element("2020", <<>>), PyStr("No Data")}

Tables ==
    UNION {[Month : [1..n -> MonthCells], Day : [1..n -> DayCells],
            Year : [1..n -> YearCells]] : n \in 0..MaxRows}

InitDates ==
    /\ df0 \in Tables
    /\ df = df0
    /\ passes = 0

\* df = standardize_dates(df)
Standardize ==
    /\ passes < MaxPasses
    /\ df' = standardize_dates(df)
    /\ passes' = passes + 1
    /\ UNCHANGED df0

(***************************************************************************)
(* Specifications: one per function, the other functions idle.            *)
(***************************************************************************)
IdleFetch ==
    /\ id_list = <<>> /\ chunk_size = 1 /\ it = 0 /\ i = 0 /\ tries = 0
    /\ pc = "idle" /\ all_papers = <<>> /\ log = <<>>
IdleExtract == papers = <<>> /\ idx = 0 /\ data = EmptyData /\ epc = "idle"
IdleDates == df0 = <<>> /\ df = <<>> /\ passes = MaxPasses

\* fetch_details
Init == InitFetch /\ IdleExtract /\ IdleDates

Next ==
    \/ StartChunk /\ UNCHANGED <<extractVars, dateVars>>
    \/ AttemptReturns /\ UNCHANGED <<extractVars, dateVars>>
    \/ AttemptRaises /\ UNCHANGED <<extractVars, dateVars>>
    \/ Pace /\ UNCHANGED <<extractVars, dateVars>>
    \/ Return /\ UNCHANGED <<extractVars, dateVars>>

Spec == Init /\ [][Next]_vars

\* The interpreter keeps running the function until it returns.
FairSpec == Spec /\ WF_vars(Next)

\* extract_data
NextExtract ==
    \/ ExtractStep /\ UNCHANGED <<fetchVars, dateVars>>
    \/ ExtractReturn /\ UNCHANGED <<fetchVars, dateVars>>

InitExtract == IdleFetch /\ InitExtractWith(PaperLists) /\ IdleDates
SpecExtract == InitExtract /\ [][NextExtract]_vars

\* extract_data on one record with any author list
InitAuthors == IdleFetch /\ InitExtractWith(AuthorPaperLists) /\ IdleDates
SpecAuthors == InitAuthors /\ [][NextExtract]_vars

\* standardize_dates, applied repeatedly
NextDates == Standardize /\ UNCHANGED <<fetchVars, extractVars>>

InitDates0 == IdleFetch /\ IdleExtract /\ InitDates
SpecDates == InitDates0 /\ [][NextDates]_vars

(***************************************************************************)
(* Reading the log of fetch_details.                                       *)
(***************************************************************************)
\* The chunks the for loop has taken so far, by start index
Started == {ChunkStarts(id_list, chunk_size)[k] : k \in 1..it}

\* The chunks whose for body has run to its end
Finished == {s \in Started : s # i \/ pc \in {"for", "done"}}

\* What was observed while chunk s was being processed
ChunkLog(s) == SelectSeq(log, LAMBDA e : e.chunk = s)
ChunkReqs(s) == SelectSeq(log, LAMBDA e : e.chunk = s /\ e.ev = "req")

\* An event without the ghost fields
Seen(e) == <<e.ev, e.out, e.ms>>
SeenLog(s) == [k \in 1..Len(ChunkLog(s)) |-> Seen(ChunkLog(s)[k])]

AllRaised(s) == \A k \in 1..Len(ChunkReqs(s)) : ChunkReqs(s)[k].out = "raise"
Survived(s) ==
    /\ ChunkReqs(s) # <<>>
    /\ ChunkReqs(s)[Len(ChunkReqs(s))].out # "raise"

\* The positions of the log that hold the first request of a chunk
FirstReqs ==
    {b \in 1..Len(log) :
        /\ log[b].ev = "req"
        /\ \A a \in 1..(b - 1) : ~(log[a].ev = "req" /\ log[a].chunk = log[b].chunk)}

\* The least m with m * c >= n
Ceil(n, c) ==
    CHOOSE m \in 0..n : m * c >= n /\ \A k \in 0..n : k * c >= n => m <= k

RECURSIVE Flatten(_)
Flatten(ss) == IF ss = <<>> THEN <<>> ELSE Head(ss) \o Flatten(Tail(ss))

\* The records all_papers holds of chunk s
PapersOf(s) == SelectSeq(all_papers, LAMBDA r : r[1] = s)

(***************************************************************************)
(* Claims about fetch_details.                                             *)
(***************************************************************************)

\* C1: a chunk whose every attempt raises is attempted exactly 3 times and
\* then abandoned; what is observed for it is a failed request, a 2 s sleep,
\* a failed request, a 4 s sleep, a failed request and then the 0.5 s pacing
\* sleep, with no backoff sleep after the third failure.  No chunk is ever
\* requested more than 3 times.
C1_RetryThrice ==
    /\ \A s \in Finished :
          AllRaised(s) =>
             SeenLog(s) = << <<"req", "raise", 0>>, <<"sleep", "", 2000>>,
                             <<"req", "raise", 0>>, <<"sleep", "", 4000>>,
                             <<"req", "raise", 0>>, <<"sleep", "", PaceMs>> >>
    /\ \A s \in Started : Len(ChunkReqs(s)) <= 3

\* A run that has returned after abandoning one chunk and fetching a later one
C1_Witness ==
    /\ pc = "done"
    /\ \E s, t \in Finished : s < t /\ AllRaised(s) /\ Survived(t)

\* C2: when fetch_details returns, the number of distinct chunks it has
\* requested is ceil(N / C), however often each was retried; before that it
\* is never more.
C2_ChunkCount ==
    LET requested == {log[b].chunk : b \in FirstReqs} IN
    /\ Cardinality(requested) <= Ceil(Len(id_list), chunk_size)
    /\ pc = "done" => Cardinality(requested) = Ceil(Len(id_list), chunk_size)

\* A returned run over a list that does not divide evenly, with a retry
C2_Witness ==
    /\ pc = "done"
    /\ Len(id_list) = 3 /\ chunk_size = 2
    /\ Cardinality({log[b].chunk : b \in FirstReqs}) = 2
    /\ \E s \in Finished : Len(ChunkReqs(s)) > 1

\* C3 as claimed: whatever the service responds, the number of records
\* returned is not more than the number of identifiers.
C3_Original == pc = "done" => Len(all_papers) <= Len(id_list)

\* No response so far held more records than the request had identifiers
NoOverfullResponse ==
    \A b \in 1..Len(log) : log[b].ev = "req" => log[b].n <= Len(log[b].ids)

\* C3 amended: as long as no response holds more records than its request
\* had identifiers, the number of records collected, and so the number
\* returned, is never more than the number of identifiers.
C3_BoundedByIds == NoOverfullResponse => Len(all_papers) <= Len(id_list)

\* A returned run of several chunks, one retried, that collected one record
\* per identifier
C3_Witness ==
    /\ pc = "done"
    /\ NoOverfullResponse
    /\ Len(id_list) >= 2
    /\ Cardinality(Finished) >= 2
    /\ Len(all_papers) = Len(id_list)
    /\ \E s \in Finished : Len(ChunkReqs(s)) > 1

\* C4: the chunks requested are consecutive slices of at most chunk_size
\* identifiers whose concatenation is a prefix of id_list, and the whole of it
\* on return; requests are issued in chunk order (from one request to the
\* next the chunk stays or advances, and a retry asks for the same
\* identifiers); and in all_papers the records of an earlier chunk precede
\* those of a later one.
C4_InOrder ==
    LET reqs == SelectSeq(log, LAMBDA e : e.ev = "req")
        isFirst(k) == k = 1 \/ reqs[k].chunk # reqs[k - 1].chunk
        joined == Flatten([k \in 1..Len(reqs) |->
                              IF isFirst(k) THEN reqs[k].ids ELSE <<>>])
    IN
    /\ \A k \in 1..Len(reqs) : Len(reqs[k].ids) \in 1..chunk_size
    /\ \A k \in 1..(Len(reqs) - 1) :
          /\ reqs[k].chunk <= reqs[k + 1].chunk
          /\ reqs[k].chunk = reqs[k + 1].chunk => reqs[k].ids = reqs[k + 1].ids
    /\ joined = SubSeq(id_list, 1, Len(joined))
    /\ pc = "done" => joined = id_list
    /\ \A k \in 1..(Len(all_papers) - 1) : all_papers[k][1] <= all_papers[k + 1][1]

\* A returned run in which two chunks survived with records and the earlier
\* one was retried
C4_Witness ==
    /\ pc = "done"
    /\ \E s, t \in Finished :
          /\ s < t
          /\ Len(ChunkReqs(s)) > 1
          /\ PapersOf(s) # <<>> /\ PapersOf(t) # <<>>

\* What a finished chunk has contributed by the code's rules: the records of
\* its successful attempt, nothing when every attempt raised
Contribution(s) ==
    LET last == ChunkReqs(s)[Len(ChunkReqs(s))] IN
    IF last.out = "ok" THEN Recs(s, last.n) ELSE <<>>

C5_Safety ==
    /\ pc \in {"for", "try", "pace", "done"}
    /\ \A s \in Finished : AllRaised(s) => PapersOf(s) = <<>>
    /\ pc = "try" =>
          /\ tries < max_tries
          /\ tries = Len(ChunkReqs(i))
          /\ AllRaised(i)
    /\ pc = "done" =>
          LET starts == ChunkStarts(id_list, chunk_size) IN
          /\ Finished = {starts[k] : k \in 1..Len(starts)}
          /\ all_papers =
                Flatten([k \in 1..Len(starts) |-> Contribution(starts[k])])

\* C5: a chunk whose attempts all fail contributes no records and does not
\* end the run; every chunk starts with its own allowance of 3 attempts (the
\* failures counted against a chunk are its own only); and fetch_details
\* eventually returns, with the records of exactly the chunks that had a
\* successful attempt, in order.
C5_PartialFailure == []C5_Safety /\ <>(pc = "done")

\* A returned run in which an abandoned chunk was followed by a chunk that
\* used its own three attempts and survived on the third
C5_Witness ==
    /\ pc = "done"
    /\ \E s, t \in Finished :
          /\ s < t
          /\ AllRaised(s)
          /\ Len(ChunkReqs(t)) = 3 /\ Survived(t) /\ PapersOf(t) # <<>>

\* C8: the event right before the first request of every chunk but the first
\* is the 0.5 s pacing sleep of the chunk before it, and every finished chunk,
\* survived or abandoned, ends with its pacing sleep.
C8_Pacing ==
    /\ \A b \in FirstReqs :
          \/ b = 1
          \/ /\ b > 1
             /\ Seen(log[b - 1]) = <<"sleep", "", PaceMs>>
             /\ log[b - 1].chunk # log[b].chunk
    /\ \A s \in Finished :
          Seen(ChunkLog(s)[Len(ChunkLog(s))]) = <<"sleep", "", PaceMs>>

\* A returned run in which a survived chunk and an abandoned chunk were each
\* followed by another chunk
C8_Witness ==
    /\ pc = "done"
    /\ \E s, t, u \in Finished :
          s < t /\ t < u /\ Survived(s) /\ AllRaised(t)

\* C9: a request answered without the 'PubmedArticle' field is the last
\* request of its chunk, is followed by the pacing sleep and not by a backoff
\* sleep, leaves the chunk without records, and the next request, if any, is
\* for the next chunk.
C9_MissingField ==
    \A b \in 1..Len(log) :
       log[b].out = "nofield" =>
          /\ PapersOf(log[b].chunk) = <<>>
          /\ b = Len(log) => pc = "pace"
          /\ b < Len(log) => Seen(log[b + 1]) = <<"sleep", "", PaceMs>>
          /\ b + 1 < Len(log) =>
                /\ log[b + 2].ev = "req"
                /\ log[b + 2].chunk = log[b].chunk + chunk_size

\* A returned run in which a chunk answered without the field, after one
\* failed attempt, was followed by a chunk that delivered records
C9_Witness ==
    /\ pc = "done"
    /\ \E b \in 1..Len(log) :
          /\ log[b].out = "nofield"
          /\ Len(ChunkReqs(log[b].chunk)) = 2
          /\ b + 2 <= Len(log)
          /\ PapersOf(log[b + 2].chunk) # <<>>

(***************************************************************************)
(* Claims about extract_data.                                              *)
(***************************************************************************)
\* Row k of the table
RowAt(k) == [c \in Columns |-> data[c][k]]

RECURSIVE Split(_, _)
Split(text, sep) ==
    IF \A k \in 1..Len(text) : text[k] # sep THEN <<text>>
    ELSE LET at == CHOOSE k \in 1..Len(text) :
                      text[k] = sep /\ \A j \in 1..(k - 1) : text[j] # sep
         IN <<SubSeq(text, 1, at - 1)>> \o Split(SubSeq(text, at + 1, Len(text)), sep)

\* The author list of the one record SpecAuthors extracts
TheAuthorList ==
    Get(Get(Get(papers[1], "MedlineCitation", <<>>), "Article", <<>>), "AuthorList", <<>>)

Has(author, key) == key \in DOMAIN author

\* The string the claim gives an author entry, as zero or one texts
ClaimedName(author) ==
    IF Has(author, "LastName") /\ Has(author, "ForeName")
    THEN <<author["LastName"].text \o <<" ">> \o author["ForeName"].text>>
    ELSE IF Has(author, "LastName") THEN <<author["LastName"].text>>
    ELSE IF Has(author, "CollectiveName") /\ ~Has(author, "ForeName")
         THEN <<author["CollectiveName"].text>>
    ELSE <<>>

\* C10 as claimed: Authors is the sentinel for zero authors and else the join
\* of one string per author entry, the string claimed for the entry.
C10_Original ==
    epc = "done" =>
       LET got == data["Authors"][1] IN
       IF TheAuthorList = <<>> THEN got = PyStr("No Authors")
       ELSE /\ Len(Split(got.text, "; ")) = Len(TheAuthorList)
            /\ \A k \in 1..Len(TheAuthorList) :
                  ClaimedName(TheAuthorList[k]) # <<>> =>
                     Split(got.text, "; ")[k] = ClaimedName(TheAuthorList[k])[1]

\* The entries that have a LastName or a CollectiveName
Named == SelectSeq(TheAuthorList,
                   LAMBDA a : Has(a, "LastName") \/ Has(a, "CollectiveName"))

NameText(author) ==
    CASE Has(author, "LastName") /\ Has(author, "ForeName") ->
            author["LastName"].text \o <<" ">> \o author["ForeName"].text
      [] Has(author, "LastName") /\ ~Has(author, "ForeName") -> author["LastName"].text
      [] OTHER -> author["CollectiveName"].text

\* C10 amended: Authors is the '; '-join, in list order, of one string per
\* author entry that has a LastName or a CollectiveName: 'LastName ForeName'
\* when both are present, else the LastName alone, else the CollectiveName;
\* an entry with neither contributes nothing, and Authors is the sentinel
\* 'No Authors' when no entry contributes.
C10_Authors ==
    epc = "done" =>
       LET got == data["Authors"][1] IN
       /\ DOMAIN got = {"text"}
       /\ IF Named = <<>> THEN got = PyStr("No Authors")
          ELSE Split(got.text, "; ") = [k \in 1..Len(Named) |-> NameText(Named[k])]

\* The table extracted from a record whose authors are a person with both
\* names followed by a group
C10_Witness ==
    /\ epc = "done"
    /\ TheAuthorList = <<Author({"LastName", "ForeName"}, 1), Author({"CollectiveName"}, 2)>>
    /\ data["Authors"][1].text =
          <<"LastName1", " ", "ForeName1", "; ", "CollectiveName2">>

(***************************************************************************)
(* Claims about standardize_dates.                                         *)
(***************************************************************************)
\* C7: once standardize_dates has been applied, applying it again leaves
\* every Year, Month and Day cell as it is.
C7_Idempotent == [][passes >= 1 => df' = df]_vars

\* A table standardized twice in which a month name was mapped to its number
\* and a missing month became the missing-value marker
C7_Witness ==
    /\ passes >= 2
    /\ \E r, q \in 1..Len(df0.Month) :
          /\ StrEq(df0.Month[r], PyStr("Mar")) /\ df.Month[r] = PyStr("03")
          /\ StrEq(df0.Month[q], PyStr("No Data")) /\ df.Month[q] = NaN

====
